---- MODULE Spec2Model ----
(***************************************************************************)
(* Patient-management service of src/main.py: a keyed collection of        *)
(* patient records kept in one JSON file (patients.json) that every        *)
(* handler loads in full and every mutating handler rewrites in full.      *)
(*                                                                         *)
(* Numbers.  height is held in centimetres (100 * metres), weight in       *)
(* tenths of a kilogram (10 * kilograms) and bmi in hundredths, so that    *)
(* the float arithmetic of Patient.bmi is exact integer arithmetic here.   *)
(* The JSON file is the variable store: a sequence of <<id, body>>         *)
(* entries in file order, which is the iteration order of the dict that    *)
(* json.load returns.                                                      *)
(*                                                                         *)
(* Scope.  Request values are already of their field's type (no missing    *)
(* field, no coercion of a numeric string); load_data and save_data are    *)
(* each one step (no partly written file is read).                         *)
(***************************************************************************)
EXTENDS Integers, Sequences, FiniteSets, TLC

VARIABLES
    store,      \* content of patients.json: sequence of [id, body] entries
    request,    \* the last request served: [op, id, arg]
    response,   \* its response: [status, detail, body]
    hist,       \* per id, the last mutation that succeeded (history)
    pc,         \* per worker thread: "idle" or "loaded" (between load and save)
    job,        \* per worker thread: the request it is serving
    data,       \* per worker thread: the dict its load_data() returned
    result,     \* per worker thread: outcome of the last request it finished
    started,    \* number of requests the worker threads have begun
    lastSave    \* the last save_data of a worker thread (history)

vars == <<store, request, response, hist, pc, job, data, result, started, lastSave>>

concvars == <<pc, job, data, result, started, lastSave>>

----------------------------------------------------------------------------
(* Bounds of the model *)

\* the worker threads begin at most this many requests in all
MaxRequests == 3

----------------------------------------------------------------------------
(* Field constraints of Patient and PatientUpdate *)

MinAge == 0
MaxAge == 120
MinHeight == 0
MinWeight == 0

Genders == {"male", "female", "other"}

StoredFields == {"name", "city", "age", "gender", "height", "weight"}

\* values a request may carry for each field, valid and invalid
Names == {"", "Ann"}
Cities == {"X"}
Ages == {-1, 0, 120, 121}
GenderInputs == {"female", "unknown"}
Heights == {-1, 0, 100}
Weights == {-1, 185, 299}

Ids == {"P001", "P002"}

FieldInputs(f) ==
    CASE f = "name" -> Names
      [] f = "city" -> Cities
      [] f = "age" -> Ages
      [] f = "gender" -> GenderInputs
      [] f = "height" -> Heights
      [] f = "weight" -> Weights

Typical ==
    [name |-> "Ann", city |-> "X", age |-> 120, gender |-> "female",
     height |-> 100, weight |-> 185]

\* request bodies of POST /add_patient (the id travels apart from the fields):
\* every body that passes validation, and Typical with one field replaced
PatientInputs ==
    [name : Names, city : Cities, age : {0, 120}, gender : {"female"},
     height : {0, 100}, weight : {185, 299}]
    \cup { [Typical EXCEPT !.age = v] : v \in Ages }
    \cup { [Typical EXCEPT !.gender = v] : v \in GenderInputs }
    \cup { [Typical EXCEPT !.height = v] : v \in Heights }
    \cup { [Typical EXCEPT !.weight = v] : v \in Weights }

\* ValidField with the upper bound of age forgotten
ValidField_no_upper_age(f, v) ==
    CASE f = "name" -> TRUE
      [] f = "city" -> TRUE
      [] f = "age" -> v >= MinAge
      [] f = "gender" -> v \in Genders
      [] f = "height" -> v >= MinHeight
      [] f = "weight" -> v >= MinWeight

\* Patient's field validation (bmi is not computed by validation)
ValidField(f, v) ==
    CASE f = "name" -> TRUE
      [] f = "city" -> TRUE
      [] f = "age" -> v >= MinAge /\ v <= MaxAge
      [] f = "gender" -> v \in Genders
      [] f = "height" -> v >= MinHeight
      [] f = "weight" -> v >= MinWeight

Patient(p) == \A f \in StoredFields : ValidField(f, p[f])

\* An optional value: <<>> is None, <<v>> is the value v.
None == <<>>
Some(v) == <<v>>

\* what a field of an update body may hold: None or one of the field's inputs
OptionalInputs(f) == {None} \cup { Some(v) : v \in FieldInputs(f) }

\* the update bodies that set exactly the fields fs (model_fields_set = fs):
\* functions from fs to None or a value
RECURSIVE PatchesOn(_)
PatchesOn(fs) ==
    IF fs = {} THEN { <<>> }
    ELSE LET f == CHOOSE g \in fs : TRUE
         IN  { (f :> o) @@ u : o \in OptionalInputs(f), u \in PatchesOn(fs \ {f}) }

\* request bodies of PUT /update_patient: the empty body, every body that
\* sets one field, and bodies that set several
PatientUpdateInputs ==
    { <<>> }
    \cup UNION { PatchesOn({f}) : f \in StoredFields }
    \cup { [weight |-> Some(299), age |-> Some(0)],
           [name |-> None, weight |-> Some(299)],
           [height |-> Some(0), weight |-> Some(185)],
           [name |-> Some(""), city |-> Some("X"), age |-> Some(0),
            gender |-> Some("female"), height |-> Some(100), weight |-> Some(299)] }

\* PatientUpdate's validation: every supplied non-null value meets its field's constraint
PatientUpdate(u) ==
    \A f \in DOMAIN u : u[f] = None \/ ValidField(f, u[f][1])

----------------------------------------------------------------------------
(* Computed fields of Patient *)

\* n / d rounded to the nearest integer, ties to even (Python's round)
RoundDiv(n, d) ==
    LET q == n \div d
        r == n % d
    IN  IF 2 * r > d \/ (2 * r = d /\ q % 2 = 1) THEN q + 1 ELSE q

\* bmi raises ZeroDivisionError when height is 0
bmi_faults(p) == p.height = 0

\* round(weight / height ** 2, 2), in hundredths
bmi(p) == RoundDiv(p.weight * 100000, p.height * p.height)

\* bmi_category with the thresholds compared inclusively
bmi_category_inclusive(p) ==
    IF bmi(p) <= 1850 THEN "Underweight"
    ELSE IF bmi(p) <= 2490 THEN "Normal weight"
    ELSE IF bmi(p) <= 2990 THEN "Overweight"
    ELSE "Obesity"

bmi_category(p) ==
    IF bmi(p) < 1850 THEN "Underweight"
    ELSE IF bmi(p) < 2490 THEN "Normal weight"
    ELSE IF bmi(p) < 2990 THEN "Overweight"
    ELSE "Obesity"

\* model_dump without the computed fields
model_dump_fields_only(p) ==
    [name |-> p.name, city |-> p.city, age |-> p.age, gender |-> p.gender,
     height |-> p.height, weight |-> p.weight]

\* patient.model_dump(exclude=["id"]): the fields and the computed fields
model_dump(p) ==
    [name |-> p.name, city |-> p.city, age |-> p.age, gender |-> p.gender,
     height |-> p.height, weight |-> p.weight,
     bmi |-> bmi(p), bmi_category |-> bmi_category(p)]

----------------------------------------------------------------------------
(* The dict that load_data returns and save_data writes *)

Keys(d) == { d[i].id : i \in 1..Len(d) }

Index(d, id) == CHOOSE i \in 1..Len(d) : d[i].id = id

Get(d, id) == d[Index(d, id)].body

\* d[id] = body: a new key goes last, an existing key keeps its place
Put(d, id, body) ==
    IF id \in Keys(d)
    THEN [d EXCEPT ![Index(d, id)].body = body]
    ELSE Append(d, [id |-> id, body |-> body])

\* Del with the test inverted: keeps the key and drops the others
Del_inverted(d, id) == SelectSeq(d, LAMBDA e : e.id = id)

\* del d[id]
Del(d, id) == SelectSeq(d, LAMBDA e : e.id # id)

Values(d) == [i \in 1..Len(d) |-> d[i].body]

----------------------------------------------------------------------------
(* The handlers, as functions of the dict d that load_data returned.  Each  *)
(* yields [saved, data, status, detail, body]: whether save_data was called *)
(* and with which dict, and the HTTP response.                              *)

NoBody == <<>>

Reply(d, status, detail, body) ==
    [saved |-> FALSE, data |-> d, status |-> status, detail |-> detail, body |-> body]

Saved(d, status, detail) ==
    [saved |-> TRUE, data |-> d, status |-> status, detail |-> detail, body |-> NoBody]

\* the request body failed validation before the handler ran
Unprocessable(d) == Reply(d, 422, "validation error", NoBody)

\* view_patient returning the first record of the file, whatever its key
view_patient_body_first(d, patient_id) ==
    IF patient_id \in Keys(d)
    THEN Reply(d, 200, "", <<d[1].body>>)
    ELSE Reply(d, 404, "Patient not found", NoBody)

\* view_patient, after load_data
view_patient_body(d, patient_id) ==
    IF patient_id \in Keys(d)
    THEN Reply(d, 200, "", <<Get(d, patient_id)>>)
    ELSE Reply(d, 404, "Patient not found", NoBody)

SortFields == {"age", "bmi", "weight", "height"}
SortOrders == {"asc", "desc"}

\* x.get(sort_by, 0)
SortKey(x, sort_by) == IF sort_by \in DOMAIN x THEN x[sort_by] ELSE 0

\* where a stable sort puts x among the already placed s: after every element
\* that does not have to follow it
InsertSorted(s, x, sort_by, reverse) ==
    LET after == { j \in 1..Len(s) :
                     IF reverse THEN SortKey(s[j], sort_by) < SortKey(x, sort_by)
                                ELSE SortKey(s[j], sort_by) > SortKey(x, sort_by) }
        at == IF after = {} THEN Len(s) + 1
              ELSE CHOOSE j \in after : \A k \in after : j <= k
    IN  SubSeq(s, 1, at - 1) \o <<x>> \o SubSeq(s, at, Len(s))

\* sorted(xs, key=lambda x: x.get(sort_by, 0), reverse=reverse)
RECURSIVE sorted(_, _, _)
sorted(xs, sort_by, reverse) ==
    IF xs = <<>> THEN <<>>
    ELSE InsertSorted(sorted(SubSeq(xs, 1, Len(xs) - 1), sort_by, reverse),
                      xs[Len(xs)], sort_by, reverse)

\* sort_order = True if order == 'asc' else False
sort_order(order) == order = "asc"

\* sort_patients; the arguments are checked before load_data
sort_patients_body(d, sort_by, order) ==
    IF sort_by \notin SortFields THEN Reply(d, 400, "Invalid sort field", NoBody)
    ELSE IF order \notin SortOrders THEN Reply(d, 400, "Invalid order", NoBody)
    ELSE Reply(d, 200, "", sorted(Values(d), sort_by, sort_order(order)))

\* add_patient without the check that the id is new
add_patient_body_overwrites(d, id, patient) ==
    IF bmi_faults(patient)
    THEN Reply(d, 500, "Internal Server Error", NoBody)
    ELSE Saved(Put(d, id, model_dump(patient)), 201, "Patient added successfully")

\* add_patient with a bmi that is 0 instead of a fault when the height is 0
add_patient_body_guarded(d, id, patient) ==
    IF id \in Keys(d) THEN Reply(d, 400, "Patient already exists", NoBody)
    ELSE IF bmi_faults(patient)
         THEN Saved(Put(d, id, [model_dump_fields_only(patient) EXCEPT !.height = 0]
                                 @@ [bmi |-> 0, bmi_category |-> "Underweight"]),
                    201, "Patient added successfully")
         ELSE Saved(Put(d, id, model_dump(patient)), 201, "Patient added successfully")

\* add_patient, after load_data
add_patient_body(d, id, patient) ==
    IF id \in Keys(d) THEN Reply(d, 400, "Patient already exists", NoBody)
    ELSE IF bmi_faults(patient)
         THEN Reply(d, 500, "Internal Server Error", NoBody)
         ELSE Saved(Put(d, id, model_dump(patient)), 201, "Patient added successfully")

\* merge that builds the record from the body alone: a field the body leaves
\* out goes back to a default
merge_resets_omitted(existing_patient, patient_update) ==
    [f \in DOMAIN existing_patient |->
        IF f \in DOMAIN patient_update /\ patient_update[f] # None
        THEN patient_update[f][1]
        ELSE IF f \in StoredFields THEN Typical[f] ELSE existing_patient[f]]

\* the loop over patient_update.items(): values that are not None overwrite
merge(existing_patient, patient_update) ==
    [f \in DOMAIN existing_patient |->
        IF f \in DOMAIN patient_update /\ patient_update[f] # None
        THEN patient_update[f][1]
        ELSE existing_patient[f]]

\* update_patient, after load_data
update_patient_body(d, patient_id, patient) ==
    IF patient_id \notin Keys(d) THEN Reply(d, 404, "Patient not found", NoBody)
    ELSE LET existing_patient == merge(Get(d, patient_id), patient)
         IN  IF ~Patient(existing_patient)
             THEN Reply(d, 400, "validation error", NoBody)
             ELSE IF bmi_faults(existing_patient)
             THEN Reply(d, 400, "float division by zero", NoBody)
             ELSE Saved(Put(d, patient_id, model_dump(existing_patient)),
                        200, "Patient updated successfully")

\* delete_patient, after load_data
delete_patient_body(d, patient_id) ==
    IF patient_id \notin Keys(d) THEN Reply(d, 404, "Patient not found", NoBody)
    ELSE Saved(Del(d, patient_id), 200, "Patient deleted successfully")

\* load_data: the dict read from the file
load_data == store

\* save_data(d): the file after the write
save_data(d) == d

----------------------------------------------------------------------------
(* Requests served one at a time: each action is one whole handler *)

NoArg == <<>>
NoId == ""

Req(op, id, arg) == [op |-> op, id |-> id, arg |-> arg]

Resp(r) == [status |-> r.status, detail |-> r.detail, body |-> r.body]

NoHist == [op |-> "none", sent |-> <<>>]

\* the file after a handler that ran to r: rewritten if it called save_data
FileAfter(r) == IF r.saved THEN save_data(r.data) ELSE store

\* what a handler that ran to r leaves behind
Serve(req, r, sent) ==
    /\ store' = FileAfter(r)
    /\ request' = req
    /\ response' = Resp(r)
    /\ hist' = IF r.saved THEN [hist EXCEPT ![req.id] = [op |-> req.op, sent |-> sent]]
               ELSE hist
    /\ UNCHANGED concvars

\* the handlers run on the file as it is: the body is validated, then the
\* handler loads the file and runs
view_patient_run(patient_id) == view_patient_body(load_data, patient_id)

sort_patients_run(sort_by, order) == sort_patients_body(load_data, sort_by, order)

add_patient_run(id, patient) ==
    IF Patient(patient) THEN add_patient_body(load_data, id, patient)
    ELSE Unprocessable(store)

update_patient_run(patient_id, patient) ==
    IF PatientUpdate(patient) THEN update_patient_body(load_data, patient_id, patient)
    ELSE Unprocessable(store)

delete_patient_run(patient_id) == delete_patient_body(load_data, patient_id)

hello ==
    Serve(Req("hello", NoId, NoArg),
          Reply(store, 200, "Patients Management System", NoBody), <<>>)

about ==
    Serve(Req("about", NoId, NoArg),
          Reply(store, 200, "FastAPI server for Patient Management System", NoBody), <<>>)

view ==
    Serve(Req("view", NoId, NoArg), Reply(load_data, 200, "", load_data), <<>>)

view_patient(patient_id) ==
    Serve(Req("view_patient", patient_id, NoArg), view_patient_run(patient_id), <<>>)

sort_patients(sort_by, order) ==
    Serve(Req("sort_patients", NoId, <<sort_by, order>>),
          sort_patients_run(sort_by, order), <<>>)

add_patient(id, patient) ==
    Serve(Req("add_patient", id, NoArg), add_patient_run(id, patient), <<patient>>)

\* the request keeps the set of fields the body set
update_patient(patient_id, patient) ==
    Serve(Req("update_patient", patient_id, DOMAIN patient),
          update_patient_run(patient_id, patient), <<>>)

delete_patient(patient_id) ==
    Serve(Req("delete_patient", patient_id, NoArg), delete_patient_run(patient_id), <<>>)

Workers == {"t1", "t2"}

NoJob == Req("none", NoId, NoArg)
NoResult == [job |-> NoJob, status |-> 0]
NoSave == [worker |-> "none", job |-> NoJob, from |-> <<>>, stale |-> FALSE]

Init ==
    /\ store = <<>>
    /\ request = NoJob
    /\ response = [status |-> 0, detail |-> "", body |-> NoBody]
    /\ hist = [id \in Ids |-> NoHist]
    /\ pc = [w \in Workers |-> "idle"]
    /\ job = [w \in Workers |-> NoJob]
    /\ data = [w \in Workers |-> <<>>]
    /\ result = [w \in Workers |-> NoResult]
    /\ started = 0
    /\ lastSave = NoSave

\* query strings of GET /sort
SortInputs ==
    (SortFields \X SortOrders) \cup { <<"name", "asc">>, <<"age", "up">> }

Next ==
    \/ hello
    \/ about
    \/ view
    \/ \E id \in Ids : view_patient(id)
    \/ \E q \in SortInputs : sort_patients(q[1], q[2])
    \/ \E id \in Ids, patient \in PatientInputs : add_patient(id, patient)
    \/ \E id \in Ids, patient \in PatientUpdateInputs : update_patient(id, patient)
    \/ \E id \in Ids : delete_patient(id)

Spec == Init /\ [][Next]_vars

----------------------------------------------------------------------------
(* Requests served concurrently by the threads of the server's pool: a     *)
(* handler reads the file in load_data and, much later, rewrites it in     *)
(* save_data, and another thread's handler may run in between.             *)

\* the mutating requests the threads serve
Jobs ==
    { Req("add_patient", id, p) :
        id \in Ids, p \in {Typical, [Typical EXCEPT !.age = 121]} }
    \cup { Req("update_patient", id, [weight |-> Some(299)]) : id \in Ids }
    \cup { Req("delete_patient", id, NoArg) : id \in Ids }

\* validation of the request body, before the handler runs
BodyValid(j) ==
    CASE j.op = "add_patient" -> Patient(j.arg)
      [] j.op = "update_patient" -> PatientUpdate(j.arg)
      [] j.op = "delete_patient" -> TRUE

\* the handler of j from the statement after load_data on
HandlerBody(d, j) ==
    CASE j.op = "add_patient" -> add_patient_body(d, j.id, j.arg)
      [] j.op = "update_patient" -> update_patient_body(d, j.id, j.arg)
      [] j.op = "delete_patient" -> delete_patient_body(d, j.id)

\* a save that applies the request to the file as it is at the time of the save
Written_reloaded(w, d, r) ==
    IF HandlerBody(store, job[w]).saved THEN HandlerBody(store, job[w]).data ELSE store

\* what save_data writes for thread w: the dict d it loaded, as changed by
\* its handler (r.data); the file as it is by then is not read again
Written(w, d, r) == save_data(r.data)

\* thread w takes a request; if its body is valid the handler starts and loads the file
Begin(w, j) ==
    /\ pc[w] = "idle"
    /\ started < MaxRequests
    /\ started' = started + 1
    /\ IF BodyValid(j)
       THEN /\ pc' = [pc EXCEPT ![w] = "loaded"]
            /\ job' = [job EXCEPT ![w] = j]
            /\ data' = [data EXCEPT ![w] = load_data]
            /\ UNCHANGED result
       ELSE /\ result' = [result EXCEPT ![w] = [job |-> j, status |-> 422]]
            /\ UNCHANGED <<pc, job, data>>
    /\ UNCHANGED <<store, lastSave>>
    /\ UNCHANGED <<request, response, hist>>

\* thread w runs the rest of its handler on the dict it loaded
Finish(w) ==
    /\ pc[w] = "loaded"
    /\ LET r == HandlerBody(data[w], job[w])
       IN  /\ store' = IF r.saved THEN Written(w, data[w], r) ELSE store
           /\ result' = [result EXCEPT ![w] = [job |-> job[w], status |-> r.status]]
           /\ lastSave' = IF r.saved
                          THEN [worker |-> w, job |-> job[w], from |-> data[w],
                                stale |-> store # data[w]]
                          ELSE lastSave
    /\ pc' = [pc EXCEPT ![w] = "idle"]
    /\ job' = [job EXCEPT ![w] = NoJob]
    /\ data' = [data EXCEPT ![w] = <<>>]
    /\ UNCHANGED started
    /\ UNCHANGED <<request, response, hist>>

ConcNext ==
    \/ \E w \in Workers, j \in Jobs : Begin(w, j)
    \/ \E w \in Workers : Finish(w)

ConcSpec == Init /\ [][ConcNext]_vars

----------------------------------------------------------------------------
(* The computed fields as a function of a validated Patient: the request    *)
(* holds the patient, the response the dump of the model.                   *)

\* weights up to this many tenths of a kilogram
MaxBmiWeight == 1000

BmiInputs ==
    { [Typical EXCEPT !.height = h, !.weight = w] :
        h \in {0, 100, 150, 170}, w \in 0..MaxBmiWeight }

\* Patient(**fields).model_dump(exclude=["id"])
computed_fields ==
    /\ request.op = "Patient"
    /\ response.status = 0
    /\ Patient(request.arg)
    /\ response' = IF bmi_faults(request.arg)
                   THEN [status |-> 500, detail |-> "float division by zero", body |-> NoBody]
                   ELSE [status |-> 200, detail |-> "", body |-> <<model_dump(request.arg)>>]
    /\ UNCHANGED <<store, request, hist>>
    /\ UNCHANGED concvars

BmiInit ==
    /\ request \in { Req("Patient", NoId, p) : p \in BmiInputs }
    /\ store = <<>>
    /\ response = [status |-> 0, detail |-> "", body |-> NoBody]
    /\ hist = [id \in Ids |-> NoHist]
    /\ pc = [w \in Workers |-> "idle"]
    /\ job = [w \in Workers |-> NoJob]
    /\ data = [w \in Workers |-> <<>>]
    /\ result = [w \in Workers |-> NoResult]
    /\ started = 0
    /\ lastSave = NoSave

BmiNext == computed_fields

BmiSpec == BmiInit /\ [][BmiNext]_vars

----------------------------------------------------------------------------
(* Properties of the requests served one at a time (Spec) *)

Bodies == { store[i].body : i \in 1..Len(store) }

Succeeded == response.status \in {200, 201}

\* C1 as stated: every record in the store satisfies all the PatientRecord
\* constraints: name and city non-empty, 0 <= age <= 120, gender one of
\* male/female/other, height >= 0 and weight >= 0.
C1_AllConstraints ==
    \A b \in Bodies :
        /\ b.name # "" /\ b.city # ""
        /\ 0 <= b.age /\ b.age <= 120
        /\ b.gender \in {"male", "female", "other"}
        /\ b.height >= 0 /\ b.weight >= 0

\* C1 (amended): after any sequence of create, update and delete every record
\* in the store has 0 <= age <= 120, a gender among male/female/other,
\* height >= 0 and weight >= 0, and a name and a city that are strings, the
\* empty string allowed.
C1_RecordsValid ==
    \A b \in Bodies :
        /\ b.name \in Names /\ b.city \in Cities
        /\ 0 <= b.age /\ b.age <= 120
        /\ b.gender \in {"male", "female", "other"}
        /\ b.height >= 0 /\ b.weight >= 0

\* two records are stored, one of them with an empty name, after an update went through
C1_Witness ==
    /\ Len(store) = 2
    /\ \E b \in Bodies : b.name = ""
    /\ request.op = "update_patient" /\ Succeeded

\* C2 as stated: after a successful create or update the record written for
\* that id holds the six stored fields only, no bmi and no bmi_category.
C2_NothingDerivedStored ==
    (request.op \in {"add_patient", "update_patient"} /\ Succeeded)
        => DOMAIN Get(store, request.id) = StoredFields

\* C2 (amended): after a successful create or update the record written for
\* that id holds the six stored fields and also bmi and bmi_category, computed
\* from the height and weight written with them; the id is not in the body.
C2_DerivedStored ==
    (request.op \in {"add_patient", "update_patient"} /\ Succeeded)
        => LET b == Get(store, request.id)
           IN  /\ DOMAIN b = StoredFields \cup {"bmi", "bmi_category"}
               /\ b.bmi * b.height * b.height <= b.weight * 100000 + (b.height * b.height) \div 2
               /\ b.bmi * b.height * b.height >= b.weight * 100000 - (b.height * b.height) \div 2
               /\ b.bmi_category \in {"Underweight", "Normal weight", "Overweight", "Obesity"}

\* an update that changed the weight wrote a new bmi with it
C2_Witness ==
    /\ request.op = "update_patient" /\ Succeeded
    /\ request.arg = {"weight"}
    /\ Get(store, request.id).weight = 299
    /\ Get(store, request.id).bmi = 2990

\* C3 as stated: create on an id already in the store fails with
\* AlreadyExists for any field values, saves nothing and leaves the store as
\* it was.
C3_AlwaysAlreadyExists ==
    \A id \in Keys(store), p \in PatientInputs :
        LET r == add_patient_run(id, p)
        IN  /\ r.status = 400 /\ r.detail = "Patient already exists"
            /\ ~r.saved /\ FileAfter(r) = store

\* C3 (amended): create on an id already in the store saves nothing and
\* leaves the store as it was; it fails with AlreadyExists for any field values
\* that pass validation, and with a validation error for those that do not.
C3_ExistingIdRejected ==
    \A id \in Keys(store), p \in PatientInputs :
        LET r == add_patient_run(id, p)
        IN  /\ ~r.saved /\ FileAfter(r) = store
            /\ IF /\ 0 <= p.age /\ p.age <= 120
                  /\ p.gender \in {"male", "female", "other"}
                  /\ p.height >= 0 /\ p.weight >= 0
               THEN r.status = 400 /\ r.detail = "Patient already exists"
               ELSE r.status = 422

\* a create was refused for an id that is in the store
C3_Witness ==
    /\ request.op = "add_patient"
    /\ response.status = 400 /\ response.detail = "Patient already exists"
    /\ request.id \in Keys(store)
    /\ hist[request.id].op \in {"add_patient", "update_patient"}

\* C4: after a successful update each stored field the patch omitted or gave
\* as null has its value from before the update and each field given non-null
\* has the patch's value (an empty patch changes no field, a one-field patch
\* changes that field only).
C4_UpdateOverlay ==
    \A id \in Keys(store), u \in PatientUpdateInputs :
        LET r == update_patient_run(id, u)
        IN  r.status = 200
              => /\ r.saved
                 /\ \A f \in StoredFields :
                      Get(FileAfter(r), id)[f] =
                          IF f \in DOMAIN u /\ u[f] # None THEN u[f][1]
                          ELSE Get(store, id)[f]

\* an update that set the name only went through; the record keeps the age
\* and the weight it was created with
C4_Witness ==
    /\ request.op = "update_patient" /\ response.status = 200
    /\ request.arg = {"name"}
    /\ hist[request.id].op = "update_patient"
    /\ LET b == Get(store, request.id)
       IN  b.name = "" /\ b.age = 0 /\ b.weight = 299

IsOrdered(xs, f, descending) ==
    \A i \in 1..Len(xs) - 1 :
        IF descending THEN xs[i][f] >= xs[i + 1][f] ELSE xs[i][f] <= xs[i + 1][f]

\* C5: sortBy(field, "asc") returns all the records of the store in
\* non-decreasing order of the field, sortBy(field, "desc") in non-increasing
\* order, for every field among age, bmi, weight and height.
C5_SortDirection ==
    (request.op = "sort_patients" /\ response.status = 200)
        => /\ Len(response.body) = Len(store)
           /\ \A b \in Bodies : \E i \in 1..Len(response.body) : response.body[i] = b
           /\ request.arg[1] \in {"age", "bmi", "weight", "height"}
           /\ IsOrdered(response.body, request.arg[1], request.arg[2] = "desc")

\* C7: after a successful create of an id that was not in the store, and with
\* no update or delete of that id since, getById returns a record whose six
\* stored fields are the values submitted to create.
C7_CreateThenGet ==
    (request.op = "view_patient" /\ hist[request.id].op = "add_patient")
        => /\ response.status = 200
           /\ Len(response.body) = 1
           /\ \A f \in StoredFields :
                response.body[1][f] = hist[request.id].sent[1][f]

\* a created record is read back after the other id was created and updated
C7_Witness ==
    /\ request.op = "view_patient" /\ response.status = 200
    /\ hist[request.id].op = "add_patient"
    /\ hist[request.id].sent[1].name = "" /\ hist[request.id].sent[1].weight = 299
    /\ \E o \in Ids \ {request.id} : hist[o].op = "update_patient"

Entry(d, id) == IF id \in Keys(d) THEN <<Get(d, id)>> ELSE <<>>

\* C8: after a successful delete of an id, getById of it returns NotFound
\* until a later create of that id succeeds, and the delete leaves the records
\* of all other ids as they were.
C8_DeleteThenGet ==
    /\ (request.op = "view_patient" /\ hist[request.id].op = "delete_patient")
          => (response.status = 404 /\ response.body = NoBody)
    /\ \A id \in Keys(store) :
          LET r == delete_patient_run(id)
          IN  /\ r.status = 200
              /\ id \notin Keys(FileAfter(r))
              /\ \A o \in Ids \ {id} : Entry(FileAfter(r), o) = Entry(store, o)

\* a deleted id is looked up while the other id is still stored
C8_Witness ==
    /\ request.op = "view_patient" /\ response.status = 404
    /\ hist[request.id].op = "delete_patient"
    /\ \E o \in Ids \ {request.id} : o \in Keys(store)

\* C10: no create or update persists a record with height 0 although height 0
\* passes validation: a request with height 0 saves nothing and leaves the
\* store as it was; the create that gets as far as dumping the record (valid
\* fields, new id) ends in the unhandled division fault (status 500), and the
\* update whose merged height is 0 ends in a 400 carrying the fault's message.
C10_ZeroHeightNeverStored ==
    /\ \A b \in Bodies : b.height # 0
    /\ \A id \in Ids, p \in PatientInputs :
          p.height = 0
              => LET r == add_patient_run(id, p)
                 IN  /\ ~r.saved /\ FileAfter(r) = store
                     /\ (Patient(p) /\ id \notin Keys(store)) => r.status = 500
    /\ \A id \in Keys(store), u \in PatientUpdateInputs :
          LET height == IF "height" \in DOMAIN u /\ u["height"] # None
                        THEN u["height"][1] ELSE Get(store, id).height
              r == update_patient_run(id, u)
          IN  height = 0
                => /\ ~r.saved /\ FileAfter(r) = store
                   /\ PatientUpdate(u)
                        => (r.status = 400 /\ r.detail = "float division by zero")

\* an update that set the height to 0 was answered 400 with the fault's
\* message and the stored record kept its height
C10_Witness ==
    /\ request.op = "update_patient" /\ "height" \in request.arg
    /\ response.status = 400 /\ response.detail = "float division by zero"
    /\ Get(store, request.id).height = 100

----------------------------------------------------------------------------
(* Properties of the computed fields (BmiSpec) *)

\* C9: for every valid record with height > 0, bmi_category is the function
\* of bmi given by the threshold table: below 18.5 Underweight, from 18.5 and
\* below 24.9 Normal weight, from 24.9 and below 29.9 Overweight, from 29.9
\* Obesity; 18.5, 24.9 and 29.9 themselves fall in the upper category.
C9_CategoryTable ==
    (request.op = "Patient" /\ request.arg.height > 0 /\ response.status # 0)
        => /\ response.status = 200
           /\ LET b == response.body[1]
              IN  /\ (b.bmi < 1850) => b.bmi_category = "Underweight"
                  /\ (1850 <= b.bmi /\ b.bmi < 2490) => b.bmi_category = "Normal weight"
                  /\ (2490 <= b.bmi /\ b.bmi < 2990) => b.bmi_category = "Overweight"
                  /\ (b.bmi >= 2990) => b.bmi_category = "Obesity"

\* a record 1.70 m tall whose bmi is 29.9 exactly is dumped as Obesity
C9_Witness ==
    /\ request.op = "Patient" /\ response.status = 200
    /\ request.arg.height = 170
    /\ response.body[1].bmi = 2990
    /\ response.body[1].bmi_category = "Obesity"

----------------------------------------------------------------------------
(* Properties of the requests served concurrently (ConcSpec) *)

\* C6: with no locking between the load and the save of a request, the later
\* save wins: after a save the file holds, for every id but the saving
\* request's own, what the dict loaded by that request held, also when another
\* request saved in between; that request's change is gone although it
\* reported success.
C6_LaterSaveWins ==
    lastSave.worker # "none"
        => /\ \A id \in Ids \ {lastSave.job.id} :
                Entry(store, id) = Entry(lastSave.from, id)
           /\ lastSave.job.op \in {"add_patient", "update_patient"}
                => lastSave.job.id \in Keys(store)
           /\ lastSave.job.op = "delete_patient" => lastSave.job.id \notin Keys(store)

\* two creates of different ids both answered 201, and the file holds only
\* the record of the one that saved last
C6_Witness ==
    \E w1 \in Workers : \E w2 \in Workers \ {w1} :
        /\ pc[w1] = "idle" /\ pc[w2] = "idle"
        /\ result[w1].status = 201 /\ result[w2].status = 201
        /\ result[w1].job.id # result[w2].job.id
        /\ lastSave.worker = w2 /\ lastSave.stale
        /\ lastSave.from = <<>>
        /\ Keys(store) = {result[w2].job.id}

====
